---- MODULE Spec2Model ----
(***************************************************************************)
(* Model of form-data-builder (src/src/lib.rs): FormData<W>, a             *)
(* multipart/form-data document builder writing into a sink W: Write.      *)
(*                                                                         *)
(* Bytes are one-character strings (or the name of a byte, "0xFF"); a      *)
(* byte string is a sequence of them.  The sink is the sequence of bytes   *)
(* its destination has accepted so far.                                    *)
(***************************************************************************)
EXTENDS Integers, Sequences, FiniteSets, TLC

VARIABLES writer, boundary, sink, room, returned, calls, initial

vars == <<writer, boundary, sink, room, returned, calls, initial>>

(***************************************************************************)
(* Bounds of the model.                                                    *)
(***************************************************************************)
MaxOps == 3

(***************************************************************************)
(* Byte-string helpers and the literals of the format strings.             *)
(***************************************************************************)
RECURSIVE Cat(_)
Cat(ss) == IF ss = <<>> THEN <<>> ELSE Head(ss) \o Cat(Tail(ss))

Repeat(c, n) == [i \in 1..n |-> c]

None == [some |-> FALSE, v |-> <<>>]

Some(x) == [some |-> TRUE, v |-> x]

CRLF == <<"\r", "\n">>

DASHES == <<"-", "-">>

QUOTE == <<"\"">>

DISPOSITION == <<"C", "o", "n", "t", "e", "n", "t", "-", "D", "i", "s", "p", "o", "s", "i", "t", "i", "o", "n", ":", " ", "f", "o", "r", "m", "-", "d", "a", "t", "a", ";", " ", "n", "a", "m", "e", "=", "\"">>

FILENAME == <<";", " ", "f", "i", "l", "e", "n", "a", "m", "e", "=", "\"">>

CONTENT_TYPE == <<"C", "o", "n", "t", "e", "n", "t", "-", "T", "y", "p", "e", ":", " ">>

MULTIPART == <<"m", "u", "l", "t", "i", "p", "a", "r", "t", "/", "f", "o", "r", "m", "-", "d", "a", "t", "a", ";", " ", "b", "o", "u", "n", "d", "a", "r", "y", "=">>

(***************************************************************************)
(* FormData::new: the boundary is the 24-byte nonce (subsec nanos, secs,   *)
(* 12 random bytes), base64-encoded with the URL-safe alphabet and         *)
(* right-aligned in 68 columns with '-' as the fill character.             *)
(***************************************************************************)
BufLen == 24

Width == 68

URL_SAFE == <<"A", "B", "C", "D", "E", "F", "G", "H", "I", "J", "K", "L", "M", "N", "O", "P", "Q", "R", "S", "T", "U", "V", "W", "X", "Y", "Z", "a", "b", "c", "d", "e", "f", "g", "h", "i", "j", "k", "l", "m", "n", "o", "p", "q", "r", "s", "t", "u", "v", "w", "x", "y", "z", "0", "1", "2", "3", "4", "5", "6", "7", "8", "9", "-", "_">>

\* n.to_le_bytes() of an integer of `len` bytes.
RECURSIVE to_le_bytes(_, _)
to_le_bytes(n, len) ==
    IF len = 0 THEN <<>> ELSE <<n % 256>> \o to_le_bytes(n \div 256, len - 1)

Reverse(s) == [i \in 1..Len(s) |-> s[Len(s) + 1 - i]]

\* n.to_ne_bytes(): the byte order of the platform the crate is built for.
to_ne_bytes(n, len, endian) ==
    IF endian = "little" THEN to_le_bytes(n, len) ELSE Reverse(to_le_bytes(n, len))

\* base64::encode_config(bytes, URL_SAFE): 3 bytes -> 4 characters, '=' padding.
RECURSIVE encode_config(_)
encode_config(bytes) ==
    IF bytes = <<>> THEN <<>>
    ELSE LET n  == Len(bytes)
             b1 == bytes[1]
             b2 == IF n >= 2 THEN bytes[2] ELSE 0
             b3 == IF n >= 3 THEN bytes[3] ELSE 0
             v  == b1 * 65536 + b2 * 256 + b3
             c1 == URL_SAFE[((v \div 262144) % 64) + 1]
             c2 == URL_SAFE[((v \div 4096) % 64) + 1]
             c3 == IF n >= 2 THEN URL_SAFE[((v \div 64) % 64) + 1] ELSE "="
             c4 == IF n >= 3 THEN URL_SAFE[(v % 64) + 1] ELSE "="
         IN  <<c1, c2, c3, c4>>
                 \o (IF n > 3 THEN encode_config(SubSeq(bytes, 4, n)) ELSE <<>>)

\* format!("{:-<68}", s): left-aligned instead of right-aligned.
PadRight(s) == IF Len(s) >= Width THEN s ELSE s \o Repeat("-", Width - Len(s))

\* format!("{:->68}", s): right-align s in Width columns, fill with '-'.
PadLeft(s) == IF Len(s) >= Width THEN s ELSE Repeat("-", Width - Len(s)) \o s

\* The clock readings and random draws the constructions are made with.
NewInputs ==
    { [nanos |-> 0, secs |-> 0, rand |-> Repeat(0, BufLen - 12), endian |-> "little"],
      [nanos |-> 999999999, secs |-> 1700000000,
       rand |-> [i \in 1..(BufLen - 12) |-> (37 * i) % 256], endian |-> "big"] }

\* The nonce with the last byte of the buffer left unfilled (zero).
nonce_short_fill(in) ==
    to_ne_bytes(in.nanos, 4, in.endian)
        \o to_ne_bytes(in.secs, 8, in.endian)
        \o SubSeq(in.rand, 1, Len(in.rand) - 1) \o <<0>>

\* buf: subsec_nanos in bytes 0..4, as_secs in 4..12, random bytes in 12..24.
nonce(in) ==
    to_ne_bytes(in.nanos, 4, in.endian)
        \o to_ne_bytes(in.secs, 8, in.endian)
        \o in.rand

new_boundary(in) == PadLeft(encode_config(nonce(in)))

(***************************************************************************)
(* The sink W: Write.  `room` says how many more bytes the destination     *)
(* accepts before its write fails (a full slice, a full disk); a write     *)
(* that does not fit appends what fits and returns an error.               *)
(***************************************************************************)
Unlimited == [limited |-> FALSE, left |-> 0]

Limited(n) == [limited |-> TRUE, left |-> n]

\* The state of the writer inside one call: bytes appended by the call so
\* far, the room left and whether a write has returned an error.
Start(r) == [out |-> <<>>, room |-> r, err |-> FALSE]

\* Write::write_all(buf); skipped once an earlier write has failed (`?`).
write_all(w, buf) ==
    IF w.err \/ buf = <<>> THEN w
    ELSE IF ~w.room.limited THEN [w EXCEPT !.out = @ \o buf]
    ELSE IF Len(buf) <= w.room.left
         THEN [w EXCEPT !.out = @ \o buf, !.room = Limited(@.left - Len(buf))]
         ELSE [out |-> w.out \o SubSeq(buf, 1, w.room.left),
               room |-> Limited(0), err |-> TRUE]

\* write!(writer, ...): one write_all per piece of the format string.
RECURSIVE write_fmt(_, _)
write_fmt(w, pieces) ==
    IF pieces = <<>> THEN w
    ELSE write_fmt(write_all(w, Head(pieces)), Tail(pieces))

Result(w) == IF w.err THEN "WriteErr" ELSE "Ok"

(***************************************************************************)
(* Inputs of the operations.                                               *)
(***************************************************************************)
Names == {<<"a", "\"">>}

Values == {<<>>, <<"v", "\n">>}

ContentTypes == {<<"t", "/", "x">>}

\* A byte that is not valid UTF-8 on its own, and U+FFFD encoded in UTF-8.
INVALID == "0xFF"

REPLACEMENT == <<"0xEF", "0xBF", "0xBD">>

\* OsStr::to_string_lossy: invalid bytes become U+FFFD, the rest is kept.
RECURSIVE to_string_lossy(_)
to_string_lossy(os) ==
    IF os = <<>> THEN <<>>
    ELSE (IF Head(os) = INVALID THEN REPLACEMENT ELSE <<Head(os)>>)
             \o to_string_lossy(Tail(os))

FileNames == {<<"f", INVALID, ".", "x">>}

\* A reader R: Read yields `data`, then end-of-data or (fails) a read error.
Readers ==
    { [data |-> <<"x", "\r", "y">>, fails |-> FALSE],
      [data |-> <<"x">>, fails |-> TRUE] }

\* A path is the sequence of its components.
PARENT == <<".", ".">>

CURDIR == <<".">>

Paths ==
    { <<<<"d">>, <<"f", INVALID, ".", "x">>>>,
      <<<<"d">>, PARENT>>,
      <<<<"m">>>> }

\* File::open(path): the file system the builder runs against.  A missing
\* path fails with NotFound; a directory opens and fails on the first read.
file_open(path) ==
    IF path = <<<<"m">>>>
    THEN [ok |-> FALSE, err |-> "NotFound", reader |-> [data |-> <<>>, fails |-> TRUE]]
    ELSE IF path[Len(path)] = PARENT
    THEN [ok |-> TRUE, err |-> "", reader |-> [data |-> <<>>, fails |-> TRUE]]
    ELSE [ok |-> TRUE, err |-> "", reader |-> [data |-> <<"p", "\n", "g">>, fails |-> FALSE]]

\* Path::file_name: the last component, unless the path is empty or ends in
\* `..`; `.` components are skipped.
file_name(path) ==
    LET normal == SelectSeq(path, LAMBDA c : c # CURDIR)
    IN  IF normal = <<>> \/ normal[Len(normal)] = PARENT
        THEN None
        ELSE Some(normal[Len(normal)])

(***************************************************************************)
(* The operations of FormData, as functions of the builder (its writer     *)
(* slot and boundary) and the room of the sink.  Each returns the result   *)
(* of the call and the writer state it leaves (bytes appended, room left). *)
(***************************************************************************)
Outcome(res, w, used) == [res |-> res, w |-> w, used |-> used]

\* write_header without the check of the writer slot.
write_header_unchecked(wr, bnd, r, name, filename, content_type) ==
    LET w1 == write_fmt(Start(r), <<DASHES, bnd, CRLF>>)
        w2 == write_fmt(w1, <<DISPOSITION, name, QUOTE>>)
        w3 == IF filename.some
              THEN write_fmt(w2, <<FILENAME, to_string_lossy(filename.v), QUOTE>>)
              ELSE w2
        w4 == write_fmt(w3, <<CRLF>>)
        w5 == IF content_type.some
              THEN write_fmt(w4, <<CONTENT_TYPE, content_type.v, CRLF>>)
              ELSE w4
        w6 == write_fmt(w5, <<CRLF>>)
    IN  Outcome(Result(w6), w6, FALSE)

\* FormData::write_header
write_header(wr, bnd, r, name, filename, content_type) ==
    IF wr = "None" THEN Outcome("Finished", Start(r), FALSE)
    ELSE LET w1 == write_fmt(Start(r), <<DASHES, bnd, CRLF>>)
             w2 == write_fmt(w1, <<DISPOSITION, name, QUOTE>>)
             w3 == IF filename.some
                   THEN write_fmt(w2, <<FILENAME, to_string_lossy(filename.v), QUOTE>>)
                   ELSE w2
             w4 == write_fmt(w3, <<CRLF>>)
             w5 == IF content_type.some
                   THEN write_fmt(w4, <<CONTENT_TYPE, content_type.v, CRLF>>)
                   ELSE w4
             w6 == write_fmt(w5, <<CRLF>>)
         IN  Outcome(Result(w6), w6, FALSE)

\* write_field that frames its part as a text/plain file part.
write_field_typed(wr, bnd, r, name, value) ==
    LET h == write_header(wr, bnd, r, name, None, Some(<<"t">>))
    IN  IF h.res # "Ok" THEN h
        ELSE LET w == write_fmt(h.w, <<value, CRLF>>)
             IN  Outcome(Result(w), w, FALSE)

\* write_field that does not end the value with CRLF.
write_field_unterminated(wr, bnd, r, name, value) ==
    LET h == write_header(wr, bnd, r, name, None, None)
    IN  IF h.res # "Ok" THEN h
        ELSE LET w == write_fmt(h.w, <<value>>)
             IN  Outcome(Result(w), w, FALSE)

\* FormData::write_field
write_field(wr, bnd, r, name, value) ==
    LET h == write_header(wr, bnd, r, name, None, None)
    IN  IF h.res # "Ok" THEN h
        ELSE LET w == write_fmt(h.w, <<value, CRLF>>)
             IN  Outcome(Result(w), w, FALSE)

\* A copy that drops carriage returns.
io_copy_text(reader, w) ==
    LET w1 == write_all(w, SelectSeq(reader.data, LAMBDA b : b # "\r"))
    IN  IF w1.err THEN Outcome("WriteErr", w1, TRUE)
        ELSE IF reader.fails THEN Outcome("ReadErr", w1, TRUE)
        ELSE Outcome("Ok", w1, TRUE)

\* std::io::copy(reader, writer): each chunk read is written before the
\* next read; a failed write ends the copy before the reader's error shows.
io_copy(reader, w) ==
    LET w1 == write_all(w, reader.data)
    IN  IF w1.err THEN Outcome("WriteErr", w1, TRUE)
        ELSE IF reader.fails THEN Outcome("ReadErr", w1, TRUE)
        ELSE Outcome("Ok", w1, TRUE)

\* write_file that ends the part with CRLF also when the copy failed.
write_file_always_terminated(wr, bnd, r, name, reader, filename, content_type) ==
    LET h == write_header(wr, bnd, r, name, filename, Some(content_type))
    IN  IF h.res # "Ok" THEN h
        ELSE LET c == io_copy(reader, h.w)
                 w == write_fmt(c.w, <<CRLF>>)
             IN  IF c.res = "WriteErr" THEN c
                 ELSE IF w.err THEN Outcome("WriteErr", w, TRUE)
                 ELSE Outcome(c.res, w, TRUE)

\* FormData::write_file
write_file(wr, bnd, r, name, reader, filename, content_type) ==
    LET h == write_header(wr, bnd, r, name, filename, Some(content_type))
    IN  IF h.res # "Ok" THEN h
        ELSE LET c == io_copy(reader, h.w)
             IN  IF c.res # "Ok" THEN c
                 ELSE LET w == write_fmt(c.w, <<CRLF>>)
                      IN  Outcome(Result(w), w, TRUE)

\* write_path that frames the header before it opens the file.
write_path_header_first(wr, bnd, r, name, path, content_type) ==
    LET f == file_open(path)
        h == write_header(wr, bnd, r, name, file_name(path), Some(content_type))
    IN  IF h.res # "Ok" THEN h
        ELSE IF ~f.ok THEN Outcome(f.err, h.w, FALSE)
        ELSE write_file(wr, bnd, r, name, f.reader, file_name(path), content_type)

\* write_path that passes no filename on.
write_path_unnamed(wr, bnd, r, name, path, content_type) ==
    LET f == file_open(path)
    IN  IF ~f.ok THEN Outcome(f.err, Start(r), FALSE)
        ELSE write_file(wr, bnd, r, name, f.reader, None, content_type)

\* FormData::write_path
write_path(wr, bnd, r, name, path, content_type) ==
    LET f == file_open(path)
    IN  IF ~f.ok THEN Outcome(f.err, Start(r), FALSE)
        ELSE write_file(wr, bnd, r, name, f.reader, file_name(path), content_type)

\* finish that ends the document with a part delimiter.
finish_delimiter(wr, bnd, r) ==
    IF wr = "None" THEN Outcome("Finished", Start(r), FALSE)
    ELSE LET w == write_fmt(Start(r), <<DASHES, bnd, CRLF>>)
         IN  Outcome(Result(w), w, FALSE)

\* finish that writes the marker whether or not the slot holds the writer.
finish_again(wr, bnd, r) ==
    LET w == write_fmt(Start(r), <<DASHES, bnd, DASHES, CRLF>>)
    IN  Outcome(Result(w), w, FALSE)

\* FormData::finish: the writer is taken out of the slot before the write.
finish(wr, bnd, r) ==
    IF wr = "None" THEN Outcome("Finished", Start(r), FALSE)
    ELSE LET w == write_fmt(Start(r), <<DASHES, bnd, DASHES, CRLF>>)
         IN  Outcome(Result(w), w, FALSE)

\* content_type_header that reports the delimiter instead of the boundary.
content_type_header_dashed(bnd) == MULTIPART \o DASHES \o bnd

\* FormData::content_type_header
content_type_header(bnd) == MULTIPART \o bnd

(***************************************************************************)
(* The state machine.                                                      *)
(*   writer    the slot `writer: Option<W>` of the builder: "Some"/"None"  *)
(*   boundary  the field `boundary`                                        *)
(*   sink      the bytes the destination behind W holds                    *)
(*   room      what the destination still accepts                          *)
(*   returned  "Some" once finish has handed W back to the caller          *)
(*   calls     the log of the calls made so far: operation, arguments,     *)
(*             result, length of the sink before and after (pre, post),    *)
(*             whether the builder was finished (fin), the room of the     *)
(*             sink, whether the reader was read from (used) and whether   *)
(*             the write of the terminal marker was started (marker),      *)
(*             the boundary of the builder at the call and the string      *)
(*             content_type_header returned (header)                       *)
(*   initial   the bytes the sink held at construction                     *)
(***************************************************************************)
InitialSinks == {<<>>, <<"z">>}

Rooms == {Unlimited, Limited(73), Limited(119), Limited(137), Limited(200)}

Init ==
    /\ writer = "Some"
    /\ boundary \in {new_boundary(in) : in \in NewInputs}
    /\ sink \in InitialSinks
    /\ initial = sink
    /\ room \in Rooms
    /\ returned = "None"
    /\ calls = <<>>

NoReader == [data |-> <<>>, fails |-> FALSE]

Call(op, name, value, reader, filename, content_type, path, o, marker) ==
    [op |-> op, name |-> name, value |-> value, reader |-> reader,
     filename |-> filename, content_type |-> content_type, path |-> path,
     res |-> o.res, pre |-> Len(sink), post |-> Len(sink) + Len(o.w.out),
     fin |-> (writer = "None"), room |-> room, used |-> o.used, marker |-> marker,
     boundary |-> boundary, header |-> <<>>]

\* A call after which the builder draws a new boundary.
ApplyRegenerate(o, call) ==
    /\ Len(calls) < MaxOps
    /\ sink' = sink \o o.w.out
    /\ room' = o.w.room
    /\ calls' = Append(calls, call)
    /\ boundary' = new_boundary(CHOOSE in \in NewInputs : new_boundary(in) # boundary)
    /\ UNCHANGED initial

\* A call whose writes start at the beginning of the destination.
ApplyRewind(o, call) ==
    /\ Len(calls) < MaxOps
    /\ sink' = IF Len(o.w.out) >= Len(sink) THEN o.w.out
               ELSE o.w.out \o SubSeq(sink, Len(o.w.out) + 1, Len(sink))
    /\ room' = o.w.room
    /\ calls' = Append(calls, call)
    /\ UNCHANGED <<boundary, initial>>

\* The effect every call has on the sink, and the log entry it leaves.
Apply(o, call) ==
    /\ Len(calls) < MaxOps
    /\ sink' = sink \o o.w.out
    /\ room' = o.w.room
    /\ calls' = Append(calls, call)
    /\ UNCHANGED <<boundary, initial>>

WriteField(name, value) ==
    LET o == write_field(writer, boundary, room, name, value)
    IN  /\ Apply(o, Call("write_field", name, value, NoReader, None, <<>>, <<>>, o, FALSE))
        /\ UNCHANGED <<writer, returned>>

\* write_file that gives the writer up when the call fails.
WriteFilePoisoned(name, reader, filename, content_type) ==
    LET o == write_file(writer, boundary, room, name, reader, filename, content_type)
    IN  /\ Apply(o, Call("write_file", name, <<>>, reader, filename, content_type, <<>>, o, FALSE))
        /\ writer' = IF o.res \in {"Ok", "Finished"} THEN writer ELSE "None"
        /\ UNCHANGED returned

WriteFile(name, reader, filename, content_type) ==
    LET o == write_file(writer, boundary, room, name, reader, filename, content_type)
    IN  /\ Apply(o, Call("write_file", name, <<>>, reader, filename, content_type, <<>>, o, FALSE))
        /\ UNCHANGED <<writer, returned>>

WritePath(name, path, content_type) ==
    LET o == write_path(writer, boundary, room, name, path, content_type)
    IN  /\ Apply(o, Call("write_path", name, <<>>, NoReader, None, content_type, path, o, FALSE))
        /\ UNCHANGED <<writer, returned>>

\* finish that leaves the writer in the slot (as_mut instead of take).
FinishKeep ==
    LET o == finish(writer, boundary, room)
    IN  /\ Apply(o, Call("finish", <<>>, <<>>, NoReader, None, <<>>, <<>>, o, writer = "Some"))
        /\ writer' = writer
        /\ returned' = IF o.res = "Ok" THEN "Some" ELSE returned

\* finish that puts the writer back when the write of the marker fails.
FinishPutBack ==
    LET o == finish(writer, boundary, room)
    IN  /\ Apply(o, Call("finish", <<>>, <<>>, NoReader, None, <<>>, <<>>, o, writer = "Some"))
        /\ writer' = IF o.res = "WriteErr" THEN writer ELSE "None"
        /\ returned' = IF o.res = "Ok" THEN "Some" ELSE returned

\* FormData::finish, and what it does to the slot and to the caller.
Finish ==
    LET o == finish(writer, boundary, room)
    IN  /\ Apply(o, Call("finish", <<>>, <<>>, NoReader, None, <<>>, <<>>, o, writer = "Some"))
        /\ writer' = "None"
        /\ returned' = IF o.res = "Ok" THEN "Some" ELSE returned

\* FormData::content_type_header: takes &self, writes nothing, cannot fail.
ContentTypeHeader ==
    LET o == Outcome("Ok", Start(room), FALSE)
        c == Call("content_type_header", <<>>, <<>>, NoReader, None, <<>>, <<>>, o, FALSE)
    IN  /\ Apply(o, [c EXCEPT !.header = content_type_header(boundary)])
        /\ UNCHANGED <<writer, returned>>

\* The destination accepts writes again after a write error (space freed).
Recover ==
    /\ calls # <<>>
    /\ calls[Len(calls)].res = "WriteErr"
    /\ room.limited
    /\ room' = Unlimited
    /\ UNCHANGED <<writer, boundary, sink, returned, calls, initial>>

Next ==
    \/ \E name \in Names, value \in Values : WriteField(name, value)
    \/ \E name \in Names, reader \in Readers, filename \in {None} \cup {Some(f) : f \in FileNames},
          content_type \in ContentTypes : WriteFile(name, reader, filename, content_type)
    \/ \E name \in Names, path \in Paths, content_type \in ContentTypes :
          WritePath(name, path, content_type)
    \/ Finish
    \/ ContentTypeHeader
    \/ Recover

Spec == Init /\ [][Next]_vars

(***************************************************************************)
(* Constructions only: FormData::new called again and again, each call     *)
(* with its own clock reading and random draw, on one platform or the      *)
(* other.  `calls` logs the constructions; `boundary` and `writer` are     *)
(* the fields of the builder constructed last.                             *)
(***************************************************************************)
MaxNew == 2

Nanos == {0, 1, 999999999}

Secs == {0, 1700000000}

Rands ==
    { Repeat(0, BufLen - 12),
      [i \in 1..(BufLen - 12) |-> IF i = BufLen - 12 THEN 1 ELSE 0],
      [i \in 1..(BufLen - 12) |-> (37 * i) % 256] }

NewArgs == [nanos : Nanos, secs : Secs, rand : Rands, endian : {"little", "big"}]

InitNew ==
    /\ writer = "None"
    /\ boundary = <<>>
    /\ sink = <<>>
    /\ initial = <<>>
    /\ room = Unlimited
    /\ returned = "None"
    /\ calls = <<>>

\* FormData::new
New(in) ==
    /\ Len(calls) < MaxNew
    /\ boundary' = new_boundary(in)
    /\ writer' = "Some"
    /\ calls' = Append(calls, [op |-> "new", in |-> in, boundary |-> new_boundary(in)])
    /\ UNCHANGED <<sink, initial, room, returned>>

NextNew == \E in \in NewArgs : New(in)

SpecNew == InitNew /\ [][NextNew]_vars

(***************************************************************************)
(* Vocabulary of the properties: the wire format of a part and of the      *)
(* terminal marker, and what the log says about a call.                    *)
(***************************************************************************)
N == Len(calls)

\* The bytes call i appended to the sink.
CallBytes(i) == SubSeq(sink, calls[i].pre + 1, calls[i].post)

\* The writer slot right after call i.
WriterAfter(i) ==
    IF i < N THEN (IF calls[i + 1].fin THEN "None" ELSE "Some") ELSE writer

Delimiter == DASHES \o boundary \o CRLF

TerminalMarker == DASHES \o boundary \o DASHES \o CRLF

FieldPart(name, value) ==
    Delimiter \o DISPOSITION \o name \o QUOTE \o CRLF \o CRLF \o value \o CRLF

FileHeader(name, filename, content_type) ==
    Delimiter \o DISPOSITION \o name \o QUOTE
        \o (IF filename.some THEN FILENAME \o to_string_lossy(filename.v) \o QUOTE ELSE <<>>)
        \o CRLF \o CONTENT_TYPE \o content_type \o CRLF \o CRLF

FilePart(name, data, filename, content_type) ==
    FileHeader(name, filename, content_type) \o data \o CRLF

\* The final component of a path, if it has one.
FinalComponent(path) ==
    IF path = <<>> \/ path[Len(path)] = PARENT THEN None ELSE Some(path[Len(path)])

\* The part a successful call adds to the document (reading the header
\* value adds none).
PartOf(c) ==
    IF c.op = "content_type_header" THEN <<>>
    ELSE IF c.op = "write_field" THEN FieldPart(c.name, c.value)
    ELSE IF c.op = "write_file"
    THEN FilePart(c.name, c.reader.data, c.filename, c.content_type)
    ELSE FilePart(c.name, file_open(c.path).reader.data, FinalComponent(c.path),
                  c.content_type)

IsWrite(c) == c.op \in {"write_field", "write_file", "write_path"}

FinishedOk(i) == calls[i].op = "finish" /\ calls[i].res = "Ok"

\* The sink accepts all of `n` more bytes.
Accepts(r, n) == ~r.limited \/ r.left >= n

(***************************************************************************)
(* C1: when every call so far succeeded and the last one is finish, the    *)
(* sink handed back holds the bytes it held at construction, then one      *)
(* part per write call in the order of the calls, then the terminal        *)
(* marker, and nothing else.                                               *)
(***************************************************************************)
C1_DocumentIsPartsThenMarker ==
    (/\ N > 0
     /\ calls[N].op = "finish"
     /\ \A i \in 1..N : calls[i].res = "Ok")
    => /\ returned = "Some"
       /\ sink = initial \o Cat([i \in 1..(N - 1) |-> PartOf(calls[i])]) \o TerminalMarker

C1_Witness ==
    /\ N = 3
    /\ initial # <<>>
    /\ calls[1].op = "write_path" /\ calls[1].res = "Ok"
    /\ calls[2].op = "write_field" /\ calls[2].res = "Ok"
    /\ FinishedOk(3)

(***************************************************************************)
(* C2: after a successful finish, every write_field and write_file call    *)
(* fails with the "already finished" error, appends no byte to the sink    *)
(* and reads nothing from its reader.                                      *)
(***************************************************************************)
C2_WritesAfterFinishFail ==
    \A i \in 1..N : \A j \in (i + 1)..N :
        (FinishedOk(i) /\ calls[j].op \in {"write_field", "write_file"})
        => /\ calls[j].res = "Finished"
           /\ calls[j].post = calls[j].pre
           /\ CallBytes(j) = <<>>
           /\ ~calls[j].used

C2_Witness ==
    /\ N = 3
    /\ FinishedOk(1)
    /\ calls[2].op = "write_field" /\ calls[2].res = "Finished"
    /\ calls[3].op = "write_file" /\ calls[3].res = "Finished"
    /\ Len(sink) = Len(initial) + Len(TerminalMarker)

(***************************************************************************)
(* C3: after a successful finish, every write_path call fails with the     *)
(* "already finished" error and writes no byte, whatever the path (also a  *)
(* path that cannot be opened).                                            *)
(***************************************************************************)
C3_PathAfterFinishFails ==
    \A i \in 1..N : \A j \in (i + 1)..N :
        (FinishedOk(i) /\ calls[j].op = "write_path")
        => /\ calls[j].res = "Finished"
           /\ CallBytes(j) = <<>>

(***************************************************************************)
(* C4: at most one finish call succeeds; the first finish call, made with  *)
(* a sink that accepts the terminal marker, succeeds and returns the sink; *)
(* every finish call after a finish call fails with the "already           *)
(* finished" error and writes nothing.                                     *)
(***************************************************************************)
C4_FinishOnce ==
    /\ Cardinality({i \in 1..N : FinishedOk(i)}) <= 1
    /\ \A i \in 1..N :
          (/\ calls[i].op = "finish"
           /\ \A h \in 1..(i - 1) : calls[h].op # "finish"
           /\ Accepts(calls[i].room, Len(TerminalMarker)))
          => /\ calls[i].res = "Ok"
             /\ returned = "Some"
             /\ CallBytes(i) = TerminalMarker
    /\ \A i \in 1..N : \A j \in (i + 1)..N :
          (calls[i].op = "finish" /\ calls[j].op = "finish")
          => /\ calls[j].res = "Finished"
             /\ CallBytes(j) = <<>>
             /\ ~calls[j].marker

C4_Witness ==
    /\ N = 3
    /\ calls[1].op = "finish" /\ calls[1].res = "WriteErr"
    /\ ~room.limited
    /\ calls[2].op = "finish" /\ calls[2].res = "Finished"
    /\ calls[3].op = "finish" /\ calls[3].res = "Finished"

(***************************************************************************)
(* C5 as claimed: the builder is finished exactly when a finish call has   *)
(* succeeded (so it is still unfinished after a finish call whose write    *)
(* of the terminal marker failed).                                         *)
(***************************************************************************)
C5_FinishedIffFinishSucceeded ==
    (writer = "None") <=> (\E i \in 1..N : FinishedOk(i))

(***************************************************************************)
(* C5, amended: the builder is finished exactly when a finish call has     *)
(* been made, whether its write of the terminal marker succeeded or        *)
(* failed; the sink is handed to the caller exactly when a finish call     *)
(* has succeeded, and never while the builder still owns it.               *)
(***************************************************************************)
C5_FinishedIffFinishCalled ==
    /\ (writer = "None") <=> (\E i \in 1..N : calls[i].op = "finish")
    /\ \A i \in 1..N : (WriterAfter(i) = "None") <=> (\E h \in 1..i : calls[h].op = "finish")
    /\ (returned = "Some") <=> (\E i \in 1..N : FinishedOk(i))
    /\ ~(writer = "Some" /\ returned = "Some")

C5_Witness ==
    /\ N >= 2
    /\ IsWrite(calls[1]) /\ calls[1].res = "Ok"
    /\ calls[2].op = "finish" /\ calls[2].res = "WriteErr"
    /\ writer = "None"
    /\ returned = "None"

(***************************************************************************)
(* C6: the write of the terminal marker is started at most once, and only  *)
(* by finish; no write call appends bytes that begin with the terminal     *)
(* marker; after it no call appends a byte; a successful finish appended   *)
(* exactly the terminal marker, and it is the only marker write.           *)
(***************************************************************************)
StartsWith(s, p) == Len(s) >= Len(p) /\ SubSeq(s, 1, Len(p)) = p

C6_OneTerminalMarker ==
    /\ Cardinality({i \in 1..N : calls[i].marker}) <= 1
    /\ \A i \in 1..N :
          /\ calls[i].marker => calls[i].op = "finish"
          /\ IsWrite(calls[i]) => ~StartsWith(CallBytes(i), DASHES \o boundary \o DASHES)
          /\ (calls[i].op = "finish" /\ CallBytes(i) # <<>>) =>
                /\ calls[i].marker
                /\ StartsWith(TerminalMarker, CallBytes(i))
    /\ \A i \in 1..N : \A j \in (i + 1)..N :
          calls[i].marker => (CallBytes(j) = <<>> /\ calls[j].post = calls[i].post)
    /\ \A i \in 1..N :
          calls[i].marker => Len(sink) = calls[i].post
    /\ \A i \in 1..N :
          FinishedOk(i) =>
             /\ {h \in 1..N : calls[h].marker} = {i}
             /\ CallBytes(i) = TerminalMarker

C6_Witness ==
    /\ N = 3
    /\ calls[1].op = "write_file" /\ calls[1].res = "Ok"
    /\ FinishedOk(2) /\ calls[2].marker
    /\ calls[3].op = "finish"
    /\ Len(sink) = calls[2].post

(***************************************************************************)
(* C7: write_path on a path that cannot be opened, on an unfinished        *)
(* builder, returns the open error ("not found") and leaves the sink       *)
(* unchanged.                                                              *)
(***************************************************************************)
C7_MissingPathWritesNothing ==
    \A i \in 1..N :
        (calls[i].op = "write_path" /\ ~calls[i].fin /\ ~file_open(calls[i].path).ok)
        => /\ calls[i].res = "NotFound"
           /\ CallBytes(i) = <<>>
           /\ calls[i].post = calls[i].pre
           /\ ~calls[i].used

C7_Witness ==
    /\ N = 2
    /\ calls[1].op = "write_field" /\ calls[1].res = "Ok"
    /\ calls[2].op = "write_path" /\ calls[2].res = "NotFound"
    /\ writer = "Some"
    /\ Accepts(room, 1)

(***************************************************************************)
(* C8: a successful write_field(name, value) appends exactly the           *)
(* delimiter line, the Content-Disposition line with the name only, an     *)
(* empty line, the value unchanged and CRLF.                               *)
(***************************************************************************)
C8_FieldPart ==
    \A i \in 1..N :
        (calls[i].op = "write_field" /\ calls[i].res = "Ok")
        => CallBytes(i) = FieldPart(calls[i].name, calls[i].value)

C8_Witness ==
    /\ N >= 2
    /\ calls[1].op = "write_file" /\ calls[1].res = "Ok"
    /\ calls[2].op = "write_field" /\ calls[2].res = "Ok" /\ calls[2].value # <<>>

(***************************************************************************)
(* C9: a successful write_file appends exactly the delimiter line, the     *)
(* Content-Disposition line with the name and, if and only if a filename   *)
(* is supplied, the filename parameter (the filename as text), the         *)
(* Content-Type line, an empty line, the bytes of the reader in order and  *)
(* unchanged, and CRLF.                                                    *)
(***************************************************************************)
C9_FilePart ==
    \A i \in 1..N :
        (calls[i].op = "write_file" /\ calls[i].res = "Ok")
        => CallBytes(i) = FilePart(calls[i].name, calls[i].reader.data,
                                   calls[i].filename, calls[i].content_type)

C9_Witness ==
    /\ N >= 2
    /\ calls[1].op = "write_file" /\ calls[1].res = "Ok" /\ calls[1].filename.some
    /\ calls[2].op = "write_file" /\ calls[2].res = "Ok" /\ ~calls[2].filename.some

(***************************************************************************)
(* C10: for a path that opens, write_path has the result and the effect    *)
(* on the sink and on the finished state that write_file has with the      *)
(* contents of the file, the final component of the path as filename and   *)
(* the same content type; a path without final component gives a part      *)
(* without filename parameter.                                             *)
(***************************************************************************)
AsWriteFile(c) ==
    write_file(IF c.fin THEN "None" ELSE "Some", boundary, c.room, c.name,
               file_open(c.path).reader, FinalComponent(c.path), c.content_type)

C10_PathIsFileOfContents ==
    \A i \in 1..N :
        (calls[i].op = "write_path" /\ file_open(calls[i].path).ok)
        => /\ LET f == AsWriteFile(calls[i])
              IN  /\ calls[i].res = f.res
                  /\ CallBytes(i) = f.w.out
                  /\ calls[i].used = f.used
           /\ WriterAfter(i) = (IF calls[i].fin THEN "None" ELSE "Some")
           /\ (/\ ~FinalComponent(calls[i].path).some
               /\ ~calls[i].fin
               /\ Accepts(calls[i].room, Len(FileHeader(calls[i].name, None, calls[i].content_type))))
              => StartsWith(CallBytes(i), FileHeader(calls[i].name, None, calls[i].content_type))

C10_Witness ==
    /\ N >= 2
    /\ calls[1].op = "write_path" /\ calls[1].res = "Ok"
    /\ FinalComponent(calls[1].path).some
    /\ calls[2].op = "write_path" /\ calls[2].res = "ReadErr"
    /\ ~FinalComponent(calls[2].path).some
    /\ calls[2].post > calls[2].pre

(***************************************************************************)
(* C11: content_type_header returns `multipart/form-data; boundary=`       *)
(* followed by the boundary in every state it is called in, never fails,   *)
(* and changes neither the sink, the boundary nor the finished state.      *)
(***************************************************************************)
BoundaryAfter(i) == IF i < N THEN calls[i + 1].boundary ELSE boundary

C11_HeaderValue ==
    \A i \in 1..N :
        calls[i].op = "content_type_header"
        => /\ calls[i].res = "Ok"
           /\ calls[i].header = MULTIPART \o calls[i].boundary
           /\ calls[i].header = MULTIPART \o calls[1].boundary
           /\ calls[i].post = calls[i].pre
           /\ CallBytes(i) = <<>>
           /\ BoundaryAfter(i) = calls[i].boundary
           /\ WriterAfter(i) = (IF calls[i].fin THEN "None" ELSE "Some")

C11_Witness ==
    /\ N = 3
    /\ calls[1].op = "write_file" /\ calls[1].res = "ReadErr"
    /\ calls[2].op = "content_type_header" /\ ~calls[2].fin
    /\ calls[3].op = "content_type_header"
    /\ writer = "Some"

(***************************************************************************)
(* C12: no operation, successful or failed, changes the boundary chosen    *)
(* at construction; every part delimiter, the terminal marker and every    *)
(* value of content_type_header carry that boundary.                       *)
(***************************************************************************)
C12_BoundaryFixed ==
    /\ N = 0 => boundary \in {new_boundary(in) : in \in NewInputs}
    /\ \A i \in 1..N :
          /\ calls[i].boundary = calls[1].boundary
          /\ boundary = calls[1].boundary
          /\ (calls[i].op # "content_type_header"
              /\ calls[i].post - calls[i].pre >= Len(calls[1].boundary) + 2)
             => StartsWith(CallBytes(i), DASHES \o calls[1].boundary)
          /\ (calls[i].op = "finish" /\ calls[i].res = "Ok")
             => CallBytes(i) = DASHES \o calls[1].boundary \o DASHES \o CRLF
          /\ calls[i].op = "content_type_header"
             => calls[i].header = MULTIPART \o calls[1].boundary

C12_Witness ==
    /\ N = 3
    /\ calls[1].op = "write_path" /\ calls[1].res = "WriteErr"
    /\ calls[2].op = "write_field" /\ calls[2].res = "Ok"
    /\ FinishedOk(3)

(***************************************************************************)
(* C13: the sink is append-only: for every operation, successful or        *)
(* failed, the content of the sink before it is a prefix of the content    *)
(* after it.                                                               *)
(***************************************************************************)
C13_AppendOnly == [][StartsWith(sink', sink)]_vars

C13_Witness ==
    /\ N = 3
    /\ calls[1].op = "write_file" /\ calls[1].res = "ReadErr"
    /\ calls[2].op = "finish" /\ calls[2].res = "WriteErr"
    /\ calls[2].post > calls[2].pre
    /\ calls[3].op = "write_field"
    /\ StartsWith(sink, initial \o FileHeader(calls[1].name, calls[1].filename, calls[1].content_type))

(***************************************************************************)
(* C14: for every construction the boundary is 68 characters long and its  *)
(* first 36 characters are all `-`: the 24-byte nonce encodes to 32        *)
(* base64 characters and 36 fill characters are placed before them.        *)
(***************************************************************************)
C14_BoundaryShape ==
    \A i \in 1..N :
        LET b == calls[i].boundary
        IN  /\ Len(nonce(calls[i].in)) = 24
            /\ Len(encode_config(nonce(calls[i].in))) = 32
            /\ Len(b) = 68
            /\ \A k \in 1..36 : b[k] = "-"
            /\ SubSeq(b, 37, 68) = encode_config(nonce(calls[i].in))
            /\ \A k \in 37..68 : \E a \in 1..64 : b[k] = URL_SAFE[a]

C14_Witness ==
    /\ N = 2
    /\ calls[1].in.secs = 0 /\ calls[1].in.nanos = 0 /\ calls[1].in.endian = "little"
    /\ calls[2].in.secs > 0 /\ calls[2].in.nanos > 1 /\ calls[2].in.endian = "big"
    /\ calls[2].boundary[37] # calls[1].boundary[37]

(***************************************************************************)
(* C15 as claimed: two builders constructed within a millisecond on one    *)
(* platform have boundaries that differ in the random-derived suffix.      *)
(***************************************************************************)
QuickSuccession(a, b) ==
    /\ a.endian = b.endian
    /\ a.secs = b.secs
    /\ a.nanos - b.nanos < 1000000
    /\ b.nanos - a.nanos < 1000000

\* The 16 characters that encode the clock reading, and the 16 that encode
\* the random bytes.
TimePrefix(b) == SubSeq(b, 37, 52)

RandomSuffix(b) == SubSeq(b, 53, 68)

C15_SuffixesAlwaysDiffer ==
    \A i \in 1..N : \A j \in (i + 1)..N :
        QuickSuccession(calls[i].in, calls[j].in)
        => RandomSuffix(calls[i].boundary) # RandomSuffix(calls[j].boundary)

(***************************************************************************)
(* C15, amended: two builders constructed within a millisecond on one      *)
(* platform have boundaries that differ in the random-derived suffix       *)
(* whenever their random draws differ, also when the time-derived prefix   *)
(* coincides; when the two draws are equal the suffixes are equal, and     *)
(* with the same clock reading so are the boundaries.                      *)
(***************************************************************************)
C15_SuffixesDifferWithDraws ==
    \A i \in 1..N : \A j \in (i + 1)..N :
        QuickSuccession(calls[i].in, calls[j].in)
        => /\ (calls[i].in.rand # calls[j].in.rand)
                 <=> (RandomSuffix(calls[i].boundary) # RandomSuffix(calls[j].boundary))
           /\ (calls[i].in.nanos = calls[j].in.nanos)
                 <=> (TimePrefix(calls[i].boundary) = TimePrefix(calls[j].boundary))
           /\ (calls[i].in = calls[j].in) <=> (calls[i].boundary = calls[j].boundary)

C15_Witness ==
    /\ N = 2
    /\ QuickSuccession(calls[1].in, calls[2].in)
    /\ calls[1].in.nanos = calls[2].in.nanos
    /\ TimePrefix(calls[1].boundary) = TimePrefix(calls[2].boundary)
    /\ calls[1].in.rand # calls[2].in.rand
    /\ calls[1].in.rand[1] = calls[2].in.rand[1]
    /\ calls[1].boundary # calls[2].boundary

(***************************************************************************)
(* C16: a write_field, write_file or write_path call that fails with an    *)
(* I/O error (open, read or write failure) on an unfinished builder        *)
(* leaves the builder unfinished and owning the sink and leaves the        *)
(* boundary unchanged; the next finish call succeeds and returns the sink  *)
(* if the sink accepts the terminal marker.                                *)
(***************************************************************************)
IoError(c) == c.res \in {"NotFound", "ReadErr", "WriteErr"}

C16_FailedWriteIsNotFatal ==
    \A i \in 1..N :
        (IsWrite(calls[i]) /\ ~calls[i].fin /\ IoError(calls[i]))
        => /\ WriterAfter(i) = "Some"
           /\ BoundaryAfter(i) = calls[i].boundary
           /\ \A j \in (i + 1)..N :
                 (/\ calls[j].op = "finish"
                  /\ \A h \in (i + 1)..(j - 1) : calls[h].op # "finish"
                  /\ Accepts(calls[j].room, Len(TerminalMarker)))
                 => /\ calls[j].res = "Ok"
                    /\ returned = "Some"
                    /\ CallBytes(j) = TerminalMarker

C16_Witness ==
    /\ N = 3
    /\ calls[1].op = "write_field" /\ calls[1].res = "WriteErr"
    /\ calls[2].op = "write_file" /\ calls[2].res = "ReadErr"
    /\ FinishedOk(3)
    /\ returned = "Some"

(***************************************************************************)
(* C17 as claimed: when the reader fails after the header was written,     *)
(* the call returns the read error, the sink keeps the delimiter, the      *)
(* headers and the payload copied so far without a trailing CRLF, and the  *)
(* bytes of the next call follow directly, not at the start of a line.     *)
(***************************************************************************)
EndsWith(s, p) == Len(s) >= Len(p) /\ SubSeq(s, Len(s) - Len(p) + 1, Len(s)) = p

\* A file part whose reader failed, and the reader, filename of that part.
ReadFailed(c) == c.op \in {"write_file", "write_path"} /\ c.res = "ReadErr"

ReaderOf(c) == IF c.op = "write_path" THEN file_open(c.path).reader ELSE c.reader

FilenameOf(c) == IF c.op = "write_path" THEN FinalComponent(c.path) ELSE c.filename

TruncatedPart(c) == FileHeader(c.name, FilenameOf(c), c.content_type) \o ReaderOf(c).data

NextFollows(i) ==
    (i < N /\ CallBytes(i + 1) # <<>>)
    => /\ calls[i + 1].pre = calls[i].post
       /\ StartsWith(DASHES \o boundary, CallBytes(i + 1))
             \/ StartsWith(CallBytes(i + 1), DASHES \o boundary)

C17_NextDelimiterNeverAtLineStart ==
    \A i \in 1..N :
        ReadFailed(calls[i])
        => /\ CallBytes(i) = TruncatedPart(calls[i])
           /\ NextFollows(i)
           /\ ~EndsWith(SubSeq(sink, 1, calls[i].post), CRLF)

(***************************************************************************)
(* C17, amended: as claimed, except that what follows the truncated        *)
(* payload is at the start of a line exactly when the payload copied so    *)
(* far is empty or ends with CRLF.                                         *)
(***************************************************************************)
C17_TruncatedPartIsUnterminated ==
    \A i \in 1..N :
        ReadFailed(calls[i])
        => /\ CallBytes(i) = TruncatedPart(calls[i])
           /\ NextFollows(i)
           /\ EndsWith(SubSeq(sink, 1, calls[i].post), CRLF)
                 <=> (ReaderOf(calls[i]).data = <<>> \/ EndsWith(ReaderOf(calls[i]).data, CRLF))

C17_Witness ==
    /\ N = 3
    /\ calls[1].op = "write_file" /\ calls[1].res = "ReadErr"
    /\ calls[1].reader.data # <<>>
    /\ calls[2].op = "write_field" /\ calls[2].res = "Ok"
    /\ calls[2].pre = calls[1].post
    /\ calls[3].op = "finish" /\ calls[3].res = "Ok"

(***************************************************************************)
(* C18: after calls that all succeeded, the bytes the builder appended     *)
(* are empty or end with CRLF, so (for a sink that was empty or ended      *)
(* with CRLF at construction) every part delimiter and the terminal        *)
(* marker begin at the start of a line.                                    *)
(***************************************************************************)
Appended == SubSeq(sink, Len(initial) + 1, Len(sink))

AtLineStart(k) == k = 0 \/ (k >= 2 /\ SubSeq(sink, k - 1, k) = CRLF)

C18_SuccessfulCallsEndLines ==
    (\A i \in 1..N : calls[i].res = "Ok")
    => /\ Appended = <<>> \/ EndsWith(Appended, CRLF)
       /\ (initial = <<>> \/ EndsWith(initial, CRLF))
          => \A i \in 1..N :
                CallBytes(i) # <<>>
                => /\ AtLineStart(calls[i].pre)
                   /\ StartsWith(CallBytes(i), DASHES \o boundary)

C18_Witness ==
    /\ N = 3
    /\ initial = <<>>
    /\ calls[1].op = "write_field" /\ calls[1].res = "Ok" /\ calls[1].value = <<>>
    /\ calls[2].op = "write_file" /\ calls[2].res = "Ok"
    /\ FinishedOk(3)
====
